---- MODULE Spec2Model ----
(***************************************************************************)
(* A model of src/main.py: the CSV -> (patient, month) groups -> numbered  *)
(* PDF invoices batch job, and its invoice_counter.txt file.               *)
(*                                                                         *)
(* Text is a sequence of one-character strings, so that str.replace,       *)
(* str(), int() and the f-string formats are computed, not assumed.  A     *)
(* service date "DD/MM/YYYY" is the triple <<DD, MM, YYYY>> of its three   *)
(* numeric fields.  pandas' missing value is NaN, Python's None is None.   *)
(* The contact and next-of-kin columns are copied by the program exactly   *)
(* as the medical-aid columns are; they are not carried here.              *)
(***************************************************************************)
EXTENDS Integers, Sequences, FiniteSets, TLC

\* ---------------------------------------------------------------- bounds
MaxRows == 2
MaxConcRows == 2
MaxDfRows == 3
MaxGroupRows == 2
MaxCounter == 4

\* ------------------------------------------------------------ text values
NaN == <<"NaN">>
None == <<"None">>
EmptyStr == << >>
NoFile == <<"ENOENT">>

\* pd.notna(x)
NotNa(x) == x # NaN

\* Python truthiness of an optional string: None and '' are false
Truthy(s) == s # None /\ s # EmptyStr

DigitChar(d) == <<"0", "1", "2", "3", "4", "5", "6", "7", "8", "9">>[d + 1]

DigitVal(c) == CHOOSE d \in 0..9 : DigitChar(d) = c

RECURSIVE Digits(_)
\* str(n) for n >= 0
Digits(n) == IF n < 10 THEN <<DigitChar(n)>>
             ELSE Digits(n \div 10) \o <<DigitChar(n % 10)>>

RECURSIVE ParseInt(_)
\* int(text) for a non-empty string of decimal digits
ParseInt(s) == IF Len(s) = 1 THEN DigitVal(s[1])
               ELSE 10 * ParseInt(SubSeq(s, 1, Len(s) - 1)) + DigitVal(s[Len(s)])

\* format(n, "0<w>d"): left-padded with zeros to at least w characters
ZeroPad(n, w) == LET d == Digits(n)
                 IN  IF Len(d) >= w THEN d ELSE [i \in 1..(w - Len(d)) |-> "0"] \o d

\* f"INV-{current_invoice_num:04d}"
FormatInvoiceNumber(n) == <<"I", "N", "V", "-">> \o ZeroPad(n, 4)

\* str.replace(old, new) for a one-character old
ReplaceChar(s, old, new) == [i \in 1..Len(s) |-> IF s[i] = old THEN new ELSE s[i]]

sanitize_filename(name) ==
    ReplaceChar(ReplaceChar(ReplaceChar(name, " ", "_"), "/", "-"), "\\", "-")

\* ord(c) for the characters that occur in patient names
CharCode(c) == CASE c = " " -> 32 [] c = "-" -> 45 [] c = "/" -> 47
                 [] c = "A" -> 65 [] c = "B" -> 66 [] c = "\\" -> 92
                 [] c = "_" -> 95

\* Python's a < b on strings: lexicographic by code point
StrLess(a, b) ==
    \E i \in 1..Len(b) :
        /\ \A j \in 1..(i - 1) : j <= Len(a) /\ a[j] = b[j]
        /\ (i > Len(a) \/ CharCode(a[i]) < CharCode(b[i]))

\* ------------------------------------------------------------------ dates
IsLeap(y) == (y % 4 = 0 /\ y % 100 # 0) \/ y % 400 = 0

DaysInMonth(m, y) == IF m = 2 THEN (IF IsLeap(y) THEN 29 ELSE 28)
                     ELSE IF m \in {4, 6, 9, 11} THEN 30 ELSE 31

\* datetime.strptime(s, "%d/%m/%Y") raises ValueError unless this holds
DateValid(s) == /\ s[2] \in 1..12
                /\ s[1] \in 1..DaysInMonth(s[2], s[3])

parse_date(s) == [year |-> s[3], month |-> s[2], day |-> s[1]]

\* Series.dt.to_period('M')
ToPeriodM(dt) == [year |-> dt.year, month |-> dt.month]

\* str(Period): "YYYY-MM"
PeriodStr(p) == ZeroPad(p.year, 4) \o <<"-">> \o ZeroPad(p.month, 2)

PeriodLess(p, q) == p.year < q.year \/ (p.year = q.year /\ p.month < q.month)

MonthName(m) == <<"January", "February", "March", "April", "May", "June", "July",
                  "August", "September", "October", "November", "December">>[m]

\* Period.strftime("%B %Y")
PeriodLabel(p) == <<MonthName(p.month), " ">> \o ZeroPad(p.year, 4)

\* --------------------------------------------------------------- grouping
\* the groupby key of a row: ('Patient name', 'year_month')
RowKey(row) == <<row.Patient_name, ToPeriodM(parse_date(row.Date))>>

KeyLess(k1, k2) == \/ StrLess(k1[1], k2[1])
                   \/ (k1[1] = k2[1] /\ PeriodLess(k1[2], k2[2]))

\* groupby(dropna=True): a row whose key holds NaN is in no group
Keyed(df) == {i \in 1..Len(df) : NotNa(df[i].Patient_name)}

KeySet(df) == {RowKey(df[i]) : i \in Keyed(df)}

RECURSIVE SortKeys(_)
SortKeys(S) == IF S = {} THEN << >>
               ELSE LET m == CHOOSE k \in S : \A o \in S \ {k} : KeyLess(k, o)
                    IN  <<m>> \o SortKeys(S \ {m})

\* position of the first row of df carrying the key
FirstRow(df, key) == CHOOSE i \in Keyed(df) :
                        /\ RowKey(df[i]) = key
                        /\ \A j \in Keyed(df) : RowKey(df[j]) = key => i <= j

RECURSIVE SortByFirstRow(_, _)
SortByFirstRow(df, S) ==
    IF S = {} THEN << >>
    ELSE LET m == CHOOSE k \in S : \A o \in S : FirstRow(df, k) <= FirstRow(df, o)
         IN  <<m>> \o SortByFirstRow(df, S \ {m})

\* groupby(sort=False): the keys in order of first appearance
FirstSeenKeys(df) == SortByFirstRow(df, KeySet(df))

\* groupby(sort=True), the default: the keys in ascending order
GroupKeys(df) == SortKeys(KeySet(df))

\* the index labels of the rows of one group, in frame order
GroupIndex(df, key) ==
    SelectSeq([i \in 1..Len(df) |-> i],
              LAMBDA i : NotNa(df[i].Patient_name) /\ RowKey(df[i]) = key)

\* .apply(parse_date) raises on an unparseable date; .dt raises on the
\* object-dtype column that an empty frame yields
GroupFails(df) == Len(df) = 0 \/ \E i \in 1..Len(df) : ~DateValid(df[i].Date)

group_by_patient_month(df) ==
    LET keys == GroupKeys(df)
    IN  [k \in 1..Len(keys) |->
            LET ix == GroupIndex(df, keys[k])
            IN  [key |-> keys[k], index |-> ix,
                 rows |-> [n \in 1..Len(ix) |-> df[ix[n]]]]]

\* [(key, group) for key, group in groups if str(key[1]) == month_filter]
FilterGroups(groups, month_filter) ==
    SelectSeq(groups, LAMBDA g : PeriodStr(g.key[2]) = month_filter)

\* ------------------------------------------------------------- the record
\* NaN is a float: first_row['Patient address'].replace raises AttributeError
TransformFails(group_df) == ~NotNa(group_df[1].Patient_address)

LineItems(group_df) ==
    [i \in 1..Len(group_df) |->
        [date |-> group_df[i].Date,
         p_code |-> IF NotNa(group_df[i].P_Code) THEN group_df[i].P_Code ELSE EmptyStr,
         icd_code |-> IF NotNa(group_df[i].ICD_Code) THEN group_df[i].ICD_Code
                      ELSE EmptyStr]]

AidFromLastRow(group_df) ==
    LET row == group_df[Len(group_df)]
    IN  IF NotNa(row.Medical_aid_name)
        THEN [medical_aid_name |-> row.Medical_aid_name,
              medical_aid_number |-> row.Medical_aid_number]
        ELSE << >>

\* the medical-aid keys of the record
MedicalAidBlock(group_df) ==
    LET first_row == group_df[1]
    IN  IF NotNa(first_row.Medical_aid_name)
        THEN [medical_aid_name |-> first_row.Medical_aid_name,
              medical_aid_number |-> first_row.Medical_aid_number]
        ELSE << >>

transform_group_to_invoice_data(group_df, invoice_number, year_month) ==
    LET first_row == group_df[1]
    IN  [patient_name |-> first_row.Patient_name,
         patient_address |-> ReplaceChar(first_row.Patient_address, "\n", "<br>")]
        @@ MedicalAidBlock(group_df)
        @@ [invoice_number |-> invoice_number,
            period |-> PeriodLabel(year_month),
            line_items |-> LineItems(group_df)]

\* output_dir / f"invoice_{safe_name}_{ym_str}.pdf"
OutputPath(patient_name, year_month) ==
    <<"invoice_">> \o sanitize_filename(patient_name) \o <<"_">>
        \o ReplaceChar(PeriodStr(year_month), "-", "_") \o <<".pdf">>

\* ----------------------------------------------------------------- inputs
Row(name, date, address, aid_name, aid_number, p_code) ==
    [Date |-> date, Patient_name |-> name, Patient_address |-> address,
     Medical_aid_name |-> aid_name, Medical_aid_number |-> aid_number,
     P_Code |-> p_code, ICD_Code |-> NaN]

NameAB == <<"A", " ", "B">>
NameA_B == <<"A", "_", "B">>
Address == <<"R", "\n", "d">>
AidName == <<"D">>
AidNumber == <<"0", "7">>
PCode == <<"0", "1">>

Nov01 == <<1, 11, 2025>>
Nov15 == <<15, 11, 2025>>
Dec02 == <<2, 12, 2025>>
Feb31 == <<31, 2, 2025>>

SeqsUpTo(S, n) == UNION {[1..k -> S] : k \in 0..n}

\* rows of the CSV files the batch runs read
RunRows == {Row(n, d, Address, NaN, NaN, PCode) :
                n \in {NameAB, NameA_B, NaN}, d \in {Nov01, Dec02}}
           \cup {Row(NameAB, Feb31, Address, NaN, NaN, PCode)}

CsvFiles == SeqsUpTo(RunRows, MaxRows)

\* rows of the CSV files two overlapping runs read
ConcRows == {Row(NameAB, Nov01, Address, NaN, NaN, PCode),
             Row(NameA_B, Dec02, Address, NaN, NaN, PCode)}

ConcCsvFiles == SeqsUpTo(ConcRows, MaxConcRows)

MonthFilters == {None, <<"2", "0", "2", "5", "-", "1", "1">>}

\* frames given to group_by_patient_month alone
GroupRows == {Row(n, d, Address, NaN, NaN, PCode) :
                n \in {NameAB, NameA_B, NaN}, d \in {Nov01, Nov15, Dec02, Feb31}}

GroupFrames == SeqsUpTo(GroupRows, MaxDfRows)

\* group frames given to transform_group_to_invoice_data alone
BuildRows == {Row(NameAB, Nov01, a, n, k, p) :
                a \in {Address, NaN}, n \in {AidName, NaN},
                k \in {AidNumber, NaN}, p \in {PCode, NaN}}

BuildFrames == SeqsUpTo(BuildRows, MaxGroupRows) \ {<< >>}

\* ------------------------------------------------------------------ state
Runs == {1, 2}

VARIABLES counterFile, outdir, run, lastWriter, df, grouped, group_df, data

vars == <<counterFile, outdir, run, lastWriter, df, grouped, group_df, data>>

\* a process that is not running generate_invoices_from_csv.  start, written,
\* writes, file0 and dir0 record the run's history: the number it fetched,
\* the invoices it emitted, its writes of the counter file, and the counter
\* file and the output directory as it found them.  prevFailed is the number
\* the previous run started from if that run died after emitting an invoice,
\* and 0 otherwise
IdleRun(prevFailed) ==
    [pc |-> "idle", groups |-> << >>, idx |-> 0, start |-> 0,
     current_invoice_num |-> 0, written |-> << >>, writes |-> 0,
     file0 |-> NoFile, dir0 |-> {}, month_filter |-> None,
     prevFailed |-> prevFailed]

\* get_next_invoice_number()
get_next_invoice_number == IF counterFile # NoFile THEN ParseInt(counterFile) ELSE 1

SaveAlsoOnError(r) ==
    \/ run[r].pc = "loop" /\ run[r].idx > Len(run[r].groups)
    \/ run[r].pc = "failed" /\ run[r].idx >= 1

\* the loop has run through all the groups: line 184 is reached
LoopDone(r) == run[r].pc = "loop" /\ run[r].idx > Len(run[r].groups)

SaveAccumulated(n, groups) == get_next_invoice_number + Len(groups)

SaveLastUsed(n, groups) == n - 1

SaveGroupCount(n, groups) == Len(groups)

\* the number handed to save_invoice_number
NumberToSave(n, groups) == n

SkipIncrement(n) == n

\* current_invoice_num += 1
NextInvoiceNum(n) == n + 1

Init == /\ counterFile \in {NoFile} \cup {Digits(n) : n \in 1..MaxCounter}
        /\ outdir = {}
        /\ run = [r \in Runs |-> IdleRun(0)]
        /\ lastWriter = 0
        /\ df = << >>
        /\ grouped = [status |-> "none"]
        /\ group_df = << >>
        /\ data = [status |-> "none"]

Pure == UNCHANGED <<df, grouped, group_df, data>>

\* lines 139-161: read, group, filter, fetch the starting number
Start(r, csv, month_filter) ==
    /\ run[r].pc = "idle"
    /\ get_next_invoice_number <= MaxCounter
    /\ LET base == [IdleRun(run[r].prevFailed) EXCEPT
                        !.file0 = counterFile, !.dir0 = outdir,
                        !.month_filter = month_filter]
           all == group_by_patient_month(csv)
           groups == IF Truthy(month_filter) THEN FilterGroups(all, month_filter)
                     ELSE all
       IN  run' = [run EXCEPT ![r] =
                IF GroupFails(csv) THEN [base EXCEPT !.pc = "failed"]
                ELSE IF Truthy(month_filter) /\ groups = << >>
                     THEN [base EXCEPT !.pc = "nodata"]
                ELSE [base EXCEPT !.pc = "loop", !.groups = groups, !.idx = 1,
                                  !.start = get_next_invoice_number,
                                  !.current_invoice_num = get_next_invoice_number]]
    /\ UNCHANGED <<counterFile, outdir, lastWriter>>
    /\ Pure

\* lines 166-182: one iteration of the loop
Emit(r) ==
    /\ run[r].pc = "loop"
    /\ run[r].idx <= Len(run[r].groups)
    /\ LET g == run[r].groups[run[r].idx]
           invoice_number == FormatInvoiceNumber(run[r].current_invoice_num)
           output_path == OutputPath(g.key[1], g.key[2])
       IN  IF TransformFails(g.rows)
           THEN /\ run' = [run EXCEPT ![r].pc = "failed"]
                /\ UNCHANGED outdir
           ELSE /\ outdir' = outdir \cup {output_path}
                /\ run' = [run EXCEPT
                      ![r].written = Append(@, [path |-> output_path,
                                                invoice_number |-> invoice_number]),
                      ![r].current_invoice_num = NextInvoiceNum(@),
                      ![r].idx = @ + 1]
    /\ UNCHANGED <<counterFile, lastWriter>>
    /\ Pure

\* line 180 raises (template, rendering or write error); the file of the
\* failing group is left behind, truncated, or not created at all
EmitFail(r) ==
    /\ run[r].pc = "loop"
    /\ run[r].idx <= Len(run[r].groups)
    /\ LET g == run[r].groups[run[r].idx]
       IN  /\ ~TransformFails(g.rows)
           /\ \E partial \in BOOLEAN :
                outdir' = IF partial THEN outdir \cup {OutputPath(g.key[1], g.key[2])}
                          ELSE outdir
    /\ run' = [run EXCEPT ![r].pc = "failed"]
    /\ UNCHANGED <<counterFile, lastWriter>>
    /\ Pure

\* line 184: save_invoice_number(current_invoice_num)
Save(r) ==
    /\ LoopDone(r)
    /\ counterFile' = Digits(NumberToSave(run[r].current_invoice_num, run[r].groups))
    /\ lastWriter' = r
    /\ run' = [run EXCEPT ![r].pc = "done", ![r].writes = @ + 1]
    /\ UNCHANGED outdir
    /\ Pure

\* the process ends: by return (lines 155, 185) or by the uncaught exception
Exit(r) ==
    /\ run[r].pc \in {"done", "nodata", "failed"}
    /\ run' = [run EXCEPT ![r] =
                  IdleRun(IF run[r].pc = "failed" /\ Len(run[r].written) >= 1
                          THEN run[r].start ELSE 0)]
    /\ UNCHANGED <<counterFile, outdir, lastWriter>>
    /\ Pure

\* one process at a time
Next == \/ \E csv \in CsvFiles, mf \in MonthFilters : Start(1, csv, mf)
        \/ Emit(1)
        \/ EmitFail(1)
        \/ Save(1)
        \/ Exit(1)

Spec == Init /\ [][Next]_vars

\* two processes, each one run of the program, overlapping at will, with
\* no month filter
NextConc == \E r \in Runs :
                \/ \E csv \in ConcCsvFiles : Start(r, csv, None)
                \/ Emit(r)
                \/ EmitFail(r)
                \/ Save(r)

SpecConc == Init /\ [][NextConc]_vars

\* ------------------------------------------- group_by_patient_month alone
InitGroup == /\ counterFile = NoFile
             /\ outdir = {}
             /\ run = [r \in Runs |-> IdleRun(0)]
             /\ lastWriter = 0
             /\ df \in GroupFrames
             /\ grouped = [status |-> "none"]
             /\ group_df = << >>
             /\ data = [status |-> "none"]

Group == /\ grouped.status = "none"
         /\ grouped' = IF GroupFails(df) THEN [status |-> "error"]
                       ELSE [status |-> "ok", groups |-> group_by_patient_month(df)]
         /\ UNCHANGED <<counterFile, outdir, run, lastWriter, df, group_df, data>>

SpecGroup == InitGroup /\ [][Group]_vars

\* ---------------------------------- transform_group_to_invoice_data alone
InitBuild == /\ counterFile = NoFile
             /\ outdir = {}
             /\ run = [r \in Runs |-> IdleRun(0)]
             /\ lastWriter = 0
             /\ df = << >>
             /\ grouped = [status |-> "none"]
             /\ group_df \in BuildFrames
             /\ data = [status |-> "none"]

Build == /\ data.status = "none"
         /\ \E n \in 1..MaxCounter :
              data' = IF TransformFails(group_df) THEN [status |-> "error"]
                      ELSE [status |-> "ok",
                            record |-> transform_group_to_invoice_data(
                                          group_df, FormatInvoiceNumber(n),
                                          RowKey(group_df[1])[2])]
         /\ UNCHANGED <<counterFile, outdir, run, lastWriter, df, grouped, group_df>>

SpecBuild == InitBuild /\ [][Build]_vars

\* ================================================================ claims
\* the integer the counter file stands for: what a run starting now fetches
Persisted(file) == IF file = NoFile THEN 1 ELSE ParseInt(file)

Terminal == {"done", "nodata", "failed"}

\* C1: in a run that fetched c, the k-th invoice emitted is that of the k-th
\* group in iteration order and carries the number c + k - 1, c being the
\* persisted counter value (1 without a counter file); a finished run has
\* emitted exactly one invoice per group.
C1_ConsecutiveNumbers ==
    LET R == run[1]
    IN  R.pc \in {"loop", "done"} \/ (R.pc = "failed" /\ R.idx >= 1) =>
          /\ R.start = Persisted(R.file0)
          /\ Len(R.written) = R.idx - 1
          /\ Len(R.written) <= Len(R.groups)
          /\ R.pc = "done" => Len(R.written) = Len(R.groups)
          /\ \A k \in 1..Len(R.written) :
                /\ R.written[k].invoice_number = FormatInvoiceNumber(R.start + k - 1)
                /\ R.written[k].path = OutputPath(R.groups[k].key[1], R.groups[k].key[2])

\* a finished run of two groups that started from a counter file holding 2
\* or more
C1_Witness ==
    LET R == run[1]
    IN  /\ R.pc = "done"
        /\ Len(R.groups) = 2
        /\ R.file0 # NoFile
        /\ R.start >= 2
        /\ R.written[2].invoice_number = FormatInvoiceNumber(R.start + 1)

C2_Inv ==
    LET R == run[1]
    IN  /\ R.pc = "loop" => R.writes = 0 /\ counterFile = R.file0
        /\ R.pc = "done" /\ Len(R.groups) >= 1 =>
              /\ R.writes = 1
              /\ Len(R.written) = Len(R.groups)
              /\ counterFile = Digits(Persisted(R.file0) + Len(R.groups))

C3_ZeroGroupsCounterUntouched ==
    LET R == run[1]
    IN  R.pc \in Terminal /\ Len(R.written) = 0 /\ Len(R.groups) = 0 =>
          counterFile = R.file0 /\ R.writes = 0

C4_Inv ==
    LET R == run[1]
    IN  /\ R.pc = "failed" /\ R.idx >= 1 =>
              /\ R.idx <= Len(R.groups)
              /\ Len(R.written) = R.idx - 1
              /\ \A k \in 1..Len(R.written) :
                    /\ R.written[k].path \in outdir
                    /\ R.written[k].invoice_number = FormatInvoiceNumber(R.start + k - 1)
              /\ R.writes = 0
              /\ counterFile = R.file0
              /\ Persisted(counterFile) = R.start
        /\ R.prevFailed # 0 /\ R.pc = "loop" => R.start = R.prevFailed

\* C4: a run that started from c and dies in group g_k has emitted
\* g_1..g_(k-1), whose files exist, and has not written the counter file,
\* which still stands for c; it does nothing more but end; and the run
\* after it starts from c again.
C4_FailureLeavesCounter ==
    /\ []C4_Inv
    /\ [][run[1].pc = "failed" =>
            /\ run'[1].pc \in {"failed", "idle"}
            /\ run'[1].written \in {run[1].written, << >>}
            /\ UNCHANGED <<counterFile, outdir>>]_vars

\* the run after one that died having emitted an invoice numbered c has
\* emitted an invoice numbered c too
C4_Witness ==
    LET R == run[1]
    IN  /\ R.prevFailed # 0
        /\ R.pc = "loop"
        /\ Len(R.written) >= 1
        /\ R.written[1].invoice_number = FormatInvoiceNumber(R.prevFailed)

\* C5: after a successful run into an empty output directory there are as
\* many files as groups, no two groups of the run sharing an output path.
C5_OneFilePerGroup ==
    LET R == run[1]
    IN  R.pc = "done" =>
          /\ \A i, j \in 1..Len(R.written) :
                i # j => R.written[i].path # R.written[j].path
          /\ R.dir0 = {} => Cardinality(outdir) = Len(R.groups)

\* C6 as stated: group A precedes group B iff A's first row precedes B's.
C6_FirstSeenOrder ==
    grouped.status = "ok" =>
        \A a, b \in 1..Len(grouped.groups) :
            a < b <=> grouped.groups[a].index[1] < grouped.groups[b].index[1]

\* C6: group_by_patient_month returns the groups in ascending order of key
\* (patient name as Python compares strings, then year-month): A precedes B
\* iff A's key is less than B's, wherever their rows are in the file.
C6_SortedOrder ==
    grouped.status = "ok" =>
        \A a, b \in 1..Len(grouped.groups) :
            a < b <=> KeyLess(grouped.groups[a].key, grouped.groups[b].key)

\* two groups, the second of which has the earlier first row
C6_Witness ==
    /\ grouped.status = "ok"
    /\ \E a, b \in 1..Len(grouped.groups) :
          a < b /\ grouped.groups[a].index[1] > grouped.groups[b].index[1]

\* C7: every row of the frame is in exactly one group, two rows are in the
\* same group iff their (patient name, year, month) agree, and a group's
\* line items are its rows in file order.
C7_Partition ==
    grouped.status = "ok" =>
        LET G == grouped.groups
            In(i, k) == \E n \in 1..Len(G[k].index) : G[k].index[n] = i
        IN  /\ \A i \in 1..Len(df) :
                  Cardinality({k \in 1..Len(G) : In(i, k)}) = 1
            /\ \A i, j \in 1..Len(df) :
                  (\E k \in 1..Len(G) : In(i, k) /\ In(j, k))
                      <=> RowKey(df[i]) = RowKey(df[j])
            /\ \A k \in 1..Len(G) :
                  /\ \A m, n \in 1..Len(G[k].index) :
                        m < n => G[k].index[m] < G[k].index[n]
                  /\ Len(LineItems(G[k].rows)) = Len(G[k].index)
                  /\ \A n \in 1..Len(G[k].index) :
                        LineItems(G[k].rows)[n].date = df[G[k].index[n]].Date

\* C8: the record holds the medical-aid keys iff the first row of the group
\* has a medical-aid name; then both are the first row's values, whatever
\* the number is; otherwise neither key is there, whatever later rows hold.
C8_MedicalAidFromFirstRow ==
    data.status = "ok" =>
        LET first_row == group_df[1]
            rec == data.record
        IN  /\ "medical_aid_name" \in DOMAIN rec <=> NotNa(first_row.Medical_aid_name)
            /\ "medical_aid_number" \in DOMAIN rec <=> NotNa(first_row.Medical_aid_name)
            /\ NotNa(first_row.Medical_aid_name) =>
                  /\ rec.medical_aid_name = first_row.Medical_aid_name
                  /\ rec.medical_aid_number = first_row.Medical_aid_number

\* a record without the keys, of a group whose second row has a medical aid
C8_Witness ==
    /\ data.status = "ok"
    /\ Len(group_df) >= 2
    /\ ~NotNa(group_df[1].Medical_aid_name)
    /\ NotNa(group_df[2].Medical_aid_name)
    /\ "medical_aid_name" \notin DOMAIN data.record

\* C9: over runs one after the other, the persisted counter value never
\* decreases, and a run that ends having emitted a group leaves it greater
\* than it found it.
C9_CounterMonotonic ==
    /\ [][Persisted(counterFile') >= Persisted(counterFile)]_vars
    /\ [](run[1].pc = "done" /\ Len(run[1].written) >= 1 =>
              Persisted(counterFile) > Persisted(run[1].file0))

\* a run has emitted a group and ended, after a run that died
C9_Witness ==
    /\ run[1].prevFailed # 0
    /\ run[1].pc = "done"
    /\ Len(run[1].written) >= 1
    /\ Persisted(counterFile) > run[1].prevFailed

\* C10: when two overlapping runs that both fetched c have ended, the
\* counter file holds c + n of the run that wrote last, and their first
\* invoices carry the same number.
C10_LastWriterWins ==
    run[1].pc = "done" /\ run[2].pc = "done" /\ run[1].start = run[2].start =>
        /\ lastWriter \in Runs
        /\ counterFile = Digits(run[lastWriter].start + Len(run[lastWriter].groups))
        /\ Len(run[1].written) >= 1 /\ Len(run[2].written) >= 1 =>
              run[1].written[1].invoice_number = run[2].written[1].invoice_number

\* both runs fetched c and emitted an invoice: two different files carry the
\* number c, and the counter is less than c + n_1 + n_2
C10_Witness ==
    /\ run[1].pc = "done" /\ run[2].pc = "done"
    /\ run[1].start = run[2].start
    /\ Len(run[1].written) >= 1 /\ Len(run[2].written) >= 1
    /\ run[1].written[1].path # run[2].written[1].path
    /\ run[1].written[1].invoice_number = run[2].written[1].invoice_number
    /\ ParseInt(counterFile) < run[1].start + Len(run[1].groups) + Len(run[2].groups)
    /\ ParseInt(counterFile) = run[lastWriter].start + Len(run[lastWriter].groups)

====
